---------------------------- MODULE Spec2Model ----------------------------
(***************************************************************************)
(* Model of merchant-analytic-api: the CSV ingestion pipeline              *)
(* (src/utils/csv_to_psql.py), the startup hook that drives it             *)
(* (src/main.py, lifespan) and the five aggregation queries                *)
(* (src/services/analytics_service.py) over the merchant_events table      *)
(* (src/models/merchant_event.py).                                         *)
(*                                                                         *)
(* Strings are atomic in TLC, so every string conversion of the code       *)
(* (str.strip, datetime parsing, Decimal parsing, to_char) is a table over *)
(* the raw strings that occur in the modelled CSV rows.  Amounts are       *)
(* NUMERIC(15,2) values held as integer cents.                             *)
(***************************************************************************)
EXTENDS Integers, Sequences, FiniteSets, TLC

\* ------------------------------------------------------------------ bounds
\* Files returned by one directory listing.
MaxFiles == 3
\* Data rows of one CSV file.
MaxRows == 3
\* Rows of a table the aggregation queries are applied to directly (SpecQ).
MaxEvents == 3

\* SQL NULL / Python None.
NULL == "<null>"
\* A failed parse (ValueError, pydantic ValidationError).
Invalid == "<invalid>"

VARIABLES
    table,          \* committed rows of merchant_events
    pc,             \* where the process is: down, seed, guard, read, insert, serving
    nfiles,         \* len(csv_files) of the running seed_data_from_folder call
    fi,             \* 1-based index of the file _process_single_csv is working on
    rows,           \* the data rows the csv reader has yielded for that file
    valid_records,  \* the list of the same name in _process_single_csv
    batches,        \* per finished file of this call: candidates and outcome
    seen,           \* event ids read from the finished files of this call
    failedFile,     \* index of the file whose bulk insert raised, 0 if none
    seedExit,       \* how the last seed_data_from_folder call ended
    q               \* the last aggregation call: operation, fault, result

vars == <<table, pc, nfiles, fi, rows, valid_records, batches, seen, failedFile, seedExit, q>>

\* ------------------------------------------------------------ CSV input
\* str.strip() on the raw strings of the modelled rows.
Strip(s) ==
    CASE s = " " -> ""
      [] s = " E1 " -> "E1"
      [] OTHER -> s

\* datetime.fromisoformat(s).isoformat(), Invalid on ValueError.
FromIsoFormat(s) ==
    CASE s = "2024-01-15 10:30:00" -> "2024-01-15T10:30:00"
      [] s = "2024-02-01T08:00:00" -> "2024-02-01T08:00:00"
      [] OTHER -> Invalid

\* The strptime formats of _convert_to_iso8601, in the order they are tried.
Formats ==
    << "%Y-%m-%d %H:%M:%S", "%Y-%m-%d %H:%M:%S.%f", "%Y-%m-%dT%H:%M:%S",
       "%Y-%m-%dT%H:%M:%S.%f", "%d/%m/%Y %H:%M:%S", "%m/%d/%Y %H:%M:%S",
       "%Y/%m/%d %H:%M:%S" >>

\* datetime.strptime(s, fmt).isoformat(), Invalid on ValueError.
Strptime(s, fmt) ==
    CASE s = "2024-01-15 10:30:00" /\ fmt = "%Y-%m-%d %H:%M:%S" -> "2024-01-15T10:30:00"
      [] s = "2024-02-01T08:00:00" /\ fmt = "%Y-%m-%dT%H:%M:%S" -> "2024-02-01T08:00:00"
      [] s = "02/01/2024 08:00:00" /\ fmt = "%d/%m/%Y %H:%M:%S" -> "2024-01-02T08:00:00"
      [] s = "02/01/2024 08:00:00" /\ fmt = "%m/%d/%Y %H:%M:%S" -> "2024-02-01T08:00:00"
      [] OTHER -> Invalid

RECURSIVE TryFormats(_, _)
TryFormats(s, k) ==
    IF k > Len(Formats) THEN ""
    ELSE IF Strptime(s, Formats[k]) # Invalid THEN Strptime(s, Formats[k])
    ELSE TryFormats(s, k + 1)

_convert_to_iso8601(timestamp_str) ==
    IF Strip(timestamp_str) = "" THEN ""
    ELSE IF FromIsoFormat(Strip(timestamp_str)) # Invalid
         THEN FromIsoFormat(Strip(timestamp_str))
    ELSE TryFormats(Strip(timestamp_str), 1)

\* Decimal(amount) succeeds (no InvalidOperation).
AmountParses(s) == s \in {"100.00", "250.00"}

\* Decimal(amount) as a NUMERIC(15,2) value, in cents.
ParseAmount(s) ==
    CASE s = "100.00" -> 10000
      [] s = "250.00" -> 25000

\* MerchantEventCreate: optional string fields turn "" into None.
EmptyToNone(s) == IF s = "" THEN NULL ELSE s

\* MerchantEventCreate(...) raises for this row (the amount does not parse).
SchemaRejects(row) == ~AmountParses(row.amount)

\* MerchantEventCreate(...).model_dump() for a row the schema accepts.
ModelDump(event_id, merchant_id, iso_timestamp, row) ==
    [ event_id        |-> event_id,
      merchant_id     |-> merchant_id,
      event_timestamp |-> EmptyToNone(iso_timestamp),
      product         |-> EmptyToNone(row.product),
      event_type      |-> EmptyToNone(row.event_type),
      amount          |-> ParseAmount(row.amount),
      status          |-> EmptyToNone(row.status),
      channel         |-> EmptyToNone(row.channel),
      region          |-> EmptyToNone(row.region),
      merchant_tier   |-> EmptyToNone(row.merchant_tier) ]

CsvRow(e, m, ts, p, a, s, tier) ==
    [ event_id |-> e, merchant_id |-> m, event_timestamp |-> ts, product |-> p,
      event_type |-> "PAYMENT", amount |-> a, status |-> s, channel |-> "",
      region |-> "LAGOS", merchant_tier |-> tier ]

\* The data rows a csv.DictReader may yield.
RowPool ==
    { CsvRow("E1", "M1", "2024-01-15 10:30:00", "P1", "100.00", "SUCCESS", "STARTER"),
      CsvRow("E2", "M2", "2024-02-01T08:00:00", "P1", "250.00", "FAILED", "PREMIUM"),
      CsvRow(" E1 ", "M2", "not-a-date", "P2", "250.00", "SUCCESS", "VERIFIED"),
      CsvRow(" ", "M1", "", "P2", "100.00", "SUCCESS", "STARTER"),
      CsvRow("E3", " ", "02/01/2024 08:00:00", "", "100.00", "", ""),
      CsvRow("E2", "M1", "2024-01-15 10:30:00", "P2", "abc", "SUCCESS", "PREMIUM") }

\* ------------------------------------------------------------ the table
\* Event ids are compared as the key column compares them: distinct stripped
\* strings of the row pool are distinct ids.
EventIds(t) == {r.event_id : r \in t}

\* Variant: the existence check never finds the id.
EventIdExists_Never(t, event_id) == FALSE

\* db.query(MerchantEvent).filter(MerchantEvent.event_id == event_id).first()
EventIdExists(t, event_id) == event_id \in EventIds(t)

\* Variant: the global check never finds a row.
TableHasData_Never(t) == FALSE

\* db.query(MerchantEvent).first()
TableHasData(t) == t # {}

\* Variant: event_id carries no key constraint.
PrimaryKeyViolation_Off(t, records) == FALSE

\* The primary key on event_id rejects the batch: an id already stored, or twice in it.
PrimaryKeyViolation(t, records) ==
    \/ \E i \in 1..Len(records) : records[i].event_id \in EventIds(t)
    \/ \E i, j \in 1..Len(records) : i # j /\ records[i].event_id = records[j].event_id

\* A stored row: the inserted record, tagged with the file of this run it came from.
Stored(rec, f) ==
    [ event_id |-> rec.event_id, merchant_id |-> rec.merchant_id,
      event_timestamp |-> rec.event_timestamp, product |-> rec.product,
      event_type |-> rec.event_type, amount |-> rec.amount, status |-> rec.status,
      channel |-> rec.channel, region |-> rec.region,
      merchant_tier |-> rec.merchant_tier, src |-> f ]

\* db.execute(insert(MerchantEvent), valid_records); db.commit()
InsertAll(t, records, f) == t \cup {Stored(records[i], f) : i \in 1..Len(records)}

\* ------------------------------------------------------------ ingestion
\* Variant: the empty-event_id check does not `continue`.
ProcessRow_KeepsEmptyId(records, row, t) ==
    LET event_id == Strip(row.event_id)
        merchant_id == Strip(row.merchant_id)
    IN  IF event_id # "" /\ EventIdExists(t, event_id) THEN records
        ELSE IF SchemaRejects(row) THEN records
        ELSE Append(records,
                    ModelDump(event_id, merchant_id,
                              _convert_to_iso8601(row.event_timestamp), row))

\* The body of the row loop of _process_single_csv: valid_records after `row`.
ProcessRow(records, row, t) ==
    LET event_id == Strip(row.event_id)
        merchant_id == Strip(row.merchant_id)
    IN  IF event_id = "" THEN records
        ELSE IF EventIdExists(t, event_id) THEN records
        ELSE IF SchemaRejects(row) THEN records
        ELSE Append(records,
                    ModelDump(event_id, merchant_id,
                              _convert_to_iso8601(row.event_timestamp), row))

NoQuery == [op |-> "none", failed |-> FALSE, result |-> <<>>]

Init ==
    /\ table = {}
    /\ pc = "down"
    /\ nfiles = 0
    /\ fi = 0
    /\ rows = <<>>
    /\ valid_records = <<>>
    /\ batches = <<>>
    /\ seen = {}
    /\ failedFile = 0
    /\ seedExit = "none"
    /\ q = NoQuery

\* lifespan, step 2: truncate; a failure is logged and rolled back.  The locals of
\* the earlier seeding call are dead; they are reset with the table they describe.
LifespanTruncate ==
    /\ pc \in {"down", "serving"}
    /\ pc' = "seed"
    /\ seedExit' = "none"
    /\ q' = NoQuery
    /\ \E ok \in BOOLEAN :
         IF ok
         THEN /\ table' = {}
              /\ nfiles' = 0
              /\ fi' = 0
              /\ batches' = <<>>
              /\ seen' = {}
              /\ failedFile' = 0
         ELSE UNCHANGED <<table, nfiles, fi, batches, seen, failedFile>>
    /\ UNCHANGED <<rows, valid_records>>

\* lifespan, step 3: call seed_data_from_folder when the data folder exists.
LifespanSeed ==
    /\ pc = "seed"
    /\ \E exists \in BOOLEAN :
         IF exists THEN pc' = "guard" /\ seedExit' = seedExit
         ELSE pc' = "serving" /\ seedExit' = "nofolder"
    /\ UNCHANGED <<table, nfiles, fi, rows, valid_records, batches, seen, failedFile, q>>

\* seed_data_from_folder up to the file loop: the global check and the listing.
SeedStart ==
    /\ pc = "guard"
    /\ IF TableHasData(table)
       THEN /\ pc' = "serving"
            /\ seedExit' = "skipped"
            /\ UNCHANGED <<nfiles, fi, batches, seen, failedFile>>
       ELSE /\ batches' = <<>>
            /\ seen' = {}
            /\ failedFile' = 0
            /\ \E n \in 0..MaxFiles :
                 /\ nfiles' = n
                 /\ IF n = 0
                    THEN pc' = "serving" /\ seedExit' = "nofiles" /\ fi' = 0
                    ELSE pc' = "read" /\ seedExit' = seedExit /\ fi' = 1
    /\ UNCHANGED <<table, rows, valid_records, q>>

\* One iteration of `for row in reader`.
ReadRow ==
    /\ pc = "read"
    /\ Len(rows) < MaxRows
    /\ \E row \in RowPool :
         /\ rows' = Append(rows, row)
         /\ valid_records' = ProcessRow(valid_records, row, table)
    /\ UNCHANGED <<table, pc, nfiles, fi, batches, seen, failedFile, seedExit, q>>

\* The reader is exhausted.
EndOfFile ==
    /\ pc = "read"
    /\ pc' = "insert"
    /\ UNCHANGED <<table, nfiles, fi, rows, valid_records, batches, seen, failedFile, seedExit, q>>

\* _process_single_csv returned: the next file of the loop, or the call returns.
NextFile ==
    IF fi < nfiles
    THEN pc' = "read" /\ fi' = fi + 1 /\ seedExit' = seedExit
    ELSE pc' = "serving" /\ fi' = fi /\ seedExit' = "returned"

\* The exception leaves _process_single_csv and seed_data_from_folder; lifespan logs it.
Raise ==
    /\ pc' = "serving"
    /\ fi' = fi
    /\ seedExit' = "raised"

\* The non-empty event ids of the rows read from the current file.
FileIds == {Strip(rows[i].event_id) : i \in 1..Len(rows)} \ {""}

\* The record kept of the file just finished: how many candidate records it had,
\* whether they were committed, and whether it repeated an id of an earlier file.
Batch(ok) == [n |-> Len(valid_records), ok |-> ok, dup |-> FileIds \cap seen # {}]

\* Variant: the rows are committed one by one, so those before the failure stay.
InsertFailed_KeepsFirst ==
    /\ table' = table \cup {Stored(valid_records[1], fi)}
    /\ failedFile' = fi
    /\ batches' = Append(batches, Batch(FALSE))
    /\ Raise

\* What a bulk insert that raised leaves behind, and where control goes: nothing
\* was committed, and no handler stands between the insert and lifespan.
InsertFailed ==
    /\ table' = table
    /\ failedFile' = fi
    /\ batches' = Append(batches, Batch(FALSE))
    /\ Raise

\* `if valid_records: db.execute(...); db.commit()` and the end of the file.
BulkInsert ==
    /\ pc = "insert"
    /\ IF valid_records = <<>>
       THEN /\ batches' = Append(batches, Batch(TRUE))
            /\ UNCHANGED <<table, failedFile>>
            /\ NextFile
       ELSE \E fault \in BOOLEAN :
              IF fault \/ PrimaryKeyViolation(table, valid_records)
              THEN InsertFailed
              ELSE /\ table' = InsertAll(table, valid_records, fi)
                   /\ batches' = Append(batches, Batch(TRUE))
                   /\ failedFile' = failedFile
                   /\ NextFile
    /\ seen' = seen \cup FileIds
    /\ rows' = <<>>
    /\ valid_records' = <<>>
    /\ UNCHANGED <<nfiles, q>>

\* ---------------------------------------------------------- aggregation
RECURSIVE SumAmount(_)
\* func.sum(MerchantEvent.amount) over a group of rows, in cents.
SumAmount(S) ==
    IF S = {} THEN 0
    ELSE LET r == CHOOSE x \in S : TRUE IN r.amount + SumAmount(S \ {r})

\* The filter of get_top_merchant.  amount is a NOT NULL column: every stored row
\* passes amount.isnot(None).
TopFilter(t) == {r \in t : r.status = "SUCCESS" /\ r.merchant_id # NULL}

\* SUM(amount) of one merchant_id group.
TotalVolume(t, m) == SumAmount({r \in TopFilter(t) : r.merchant_id = m})

\* The groups that ORDER BY SUM(amount) DESC may put first: the query names no
\* second sort key, so among equal sums the database decides.
TopGroups(t) ==
    LET ms == {r.merchant_id : r \in TopFilter(t)}
    IN  {m \in ms : \A m2 \in ms : TotalVolume(t, m2) <= TotalVolume(t, m)}

\* round(float(total_volume), 2), in cents; 0.0 when the sum is falsy.
RoundVolume(v) == IF v # 0 THEN v ELSE 0

TopMerchantDefault == [merchant_id |-> NULL, total_volume |-> 0]

\* The results get_top_merchant may return; `failed`: the query raised.
get_top_merchant(t, failed) ==
    IF failed THEN {TopMerchantDefault}
    ELSE IF TopGroups(t) = {} THEN {[merchant_id |-> NULL, total_volume |-> 0]}
    ELSE {[merchant_id |-> m, total_volume |-> RoundVolume(TotalVolume(t, m))] :
            m \in TopGroups(t)}

\* to_char(event_timestamp, 'YYYY-MM')
MonthOf(ts) ==
    CASE ts = "2024-01-15T10:30:00" -> "2024-01"
      [] ts = "2024-01-02T08:00:00" -> "2024-01"
      [] ts = "2024-02-01T08:00:00" -> "2024-02"

MonthlyFilter(t) ==
    {r \in t : r.status = "SUCCESS" /\ r.merchant_id # NULL /\ r.event_timestamp # NULL}

\* The mapping get_monthly_active_merchants returns.
get_monthly_active_merchants(t, failed) ==
    IF failed THEN <<>>
    ELSE [mo \in {MonthOf(r.event_timestamp) : r \in MonthlyFilter(t)} |->
            Cardinality({r.merchant_id :
                r \in {x \in MonthlyFilter(t) : MonthOf(x.event_timestamp) = mo}})]

AdoptionFilter(t) == {r \in t : r.product # NULL /\ r.merchant_id # NULL}

\* The mapping get_product_adoption returns (`if row.product` drops an empty name).
get_product_adoption(t, failed) ==
    IF failed THEN <<>>
    ELSE [p \in {r.product : r \in AdoptionFilter(t)} \ {""} |->
            Cardinality({r.merchant_id : r \in {x \in AdoptionFilter(t) : x.product = p}})]

\* COUNT(DISTINCT merchant_id) of one stage of get_kyc_funnel.
StageCount(t, stage) ==
    Cardinality({r.merchant_id :
        r \in {x \in t : x.merchant_tier = stage /\ x.status = "SUCCESS"
                         /\ x.merchant_id # NULL}})

KycFunnelDefault == [tier_starter |-> 0, tier_verified |-> 0, tier_premium |-> 0]

\* Variant: the handler returns the partly filled `result`.
get_kyc_funnel_Partial(t, failed) ==
    [ tier_starter  |-> StageCount(t, "STARTER"),
      tier_verified |-> IF failed THEN 0 ELSE StageCount(t, "VERIFIED"),
      tier_premium  |-> IF failed THEN 0 ELSE StageCount(t, "PREMIUM") ]

\* The record get_kyc_funnel returns.
get_kyc_funnel(t, failed) ==
    IF failed THEN KycFunnelDefault
    ELSE [ tier_starter  |-> StageCount(t, "STARTER"),
           tier_verified |-> StageCount(t, "VERIFIED"),
           tier_premium  |-> StageCount(t, "PREMIUM") ]

RatesFilter(t) == {r \in t : r.product # NULL /\ r.status \in {"SUCCESS", "FAILED"}}

\* COUNT(CASE WHEN status = s THEN 1 END) of one product group.
StatusCount(t, p, s) == Cardinality({r \in RatesFilter(t) : r.product = p /\ r.status = s})

\* round((failed_count / total) * 100, 1), in tenths of a percent: the nearest
\* tenth, a tie going to the even one.
RoundRate(failed_count, total) ==
    LET n == 1000 * failed_count
        lo == n \div total
        rem2 == 2 * (n % total)
    IN  IF rem2 < total THEN lo
        ELSE IF rem2 > total THEN lo + 1
        ELSE IF lo % 2 = 0 THEN lo ELSE lo + 1

\* failed_count + success_count of one product group.
Total(t, p) == StatusCount(t, p, "FAILED") + StatusCount(t, p, "SUCCESS")

\* The entries of failure_rates: one per group, skipped unless total > 0.
RateEntries(t) ==
    { [ product |-> IF p = "" THEN "UNKNOWN" ELSE p,
        failure_rate |-> RoundRate(StatusCount(t, p, "FAILED"), Total(t, p)) ] :
        p \in {x \in {r.product : r \in RatesFilter(t)} : Total(t, x) > 0} }

\* Variant: the sort without reverse=True.
SortedDescending_Ascending(s) ==
    \A i, j \in 1..Len(s) : i < j => s[i].failure_rate <= s[j].failure_rate

\* failure_rates.sort(key=failure_rate, reverse=True)
SortedDescending(s) ==
    \A i, j \in 1..Len(s) : i < j => s[i].failure_rate >= s[j].failure_rate

\* The lists get_failure_rates may return: GROUP BY yields the groups in an order
\* the database chooses, and the stable sort keeps that order among equal rates.
get_failure_rates(t, failed) ==
    IF failed THEN {<<>>}
    ELSE LET E == RateEntries(t)
         IN  {s \in [1..Cardinality(E) -> E] :
                /\ \A e \in E : \E i \in 1..Cardinality(E) : s[i] = e
                /\ SortedDescending(s)}

Answer(op, failed, result) ==
    /\ pc = "serving"
    /\ q' = [op |-> op, failed |-> failed, result |-> result]
    /\ UNCHANGED <<table, pc, nfiles, fi, rows, valid_records, batches, seen, failedFile, seedExit>>

GetTopMerchant ==
    \E failed \in BOOLEAN : \E r \in get_top_merchant(table, failed) :
        Answer("top_merchant", failed, r)

GetMonthlyActiveMerchants ==
    \E failed \in BOOLEAN :
        Answer("monthly_active_merchants", failed, get_monthly_active_merchants(table, failed))

GetProductAdoption ==
    \E failed \in BOOLEAN :
        Answer("product_adoption", failed, get_product_adoption(table, failed))

GetKycFunnel ==
    \E failed \in BOOLEAN : Answer("kyc_funnel", failed, get_kyc_funnel(table, failed))

GetFailureRates ==
    \E failed \in BOOLEAN : \E r \in get_failure_rates(table, failed) :
        Answer("failure_rates", failed, r)

Next ==
    \/ LifespanTruncate
    \/ LifespanSeed
    \/ SeedStart
    \/ ReadRow
    \/ EndOfFile
    \/ BulkInsert
    \/ GetTopMerchant
    \/ GetMonthlyActiveMerchants
    \/ GetProductAdoption
    \/ GetKycFunnel
    \/ GetFailureRates

Spec == Init /\ [][Next]_vars

\* ------------------------------------------- the queries on their own
EventNames == <<"E1", "E2", "E3", "E4", "E5">>

StoredEvent(i, m, a, st, p) ==
    [ event_id |-> EventNames[i], merchant_id |-> m, event_timestamp |-> NULL,
      product |-> p, event_type |-> NULL, amount |-> a, status |-> st,
      channel |-> NULL, region |-> NULL, merchant_tier |-> NULL, src |-> 1 ]

\* What get_top_merchant reads of an event, and what get_failure_rates reads.
Kinds ==
    [merchant_id : {"M1", "M2"}, amount : {10000, 25000},
     status : {"SUCCESS", "FAILED", NULL}, product : {"P1"}]
    \cup
    [merchant_id : {"M1"}, amount : {10000},
     status : {"SUCCESS", "FAILED", "PENDING", NULL}, product : {"P1", "P2", NULL}]

\* The table of Len(g) rows with event ids E1, E2, ..., row Ei of kind g[i].
QueryTable(g) ==
    {StoredEvent(i, g[i].merchant_id, g[i].amount, g[i].status, g[i].product) :
        i \in 1..Len(g)}

InitQ ==
    /\ \E n \in 0..MaxEvents : \E g \in [1..n -> Kinds] : table = QueryTable(g)
    /\ pc = "serving"
    /\ nfiles = 0
    /\ fi = 0
    /\ rows = <<>>
    /\ valid_records = <<>>
    /\ batches = <<>>
    /\ seen = {}
    /\ failedFile = 0
    /\ seedExit = "nofiles"
    /\ q = NoQuery

NextQ ==
    \/ GetTopMerchant
    \/ GetFailureRates

SpecQ == InitQ /\ [][NextQ]_vars

\* ------------------------------------------------------------- properties
\* Rows of the table that came from file f of the run that filled it.
RowsFrom(f) == {r \in table : r.src = f}

\* C1: when the bulk insert of a file fails, every file that sorts after it is
\* still processed and its candidate rows are persisted.
C1_FailureIsolatedPerFile ==
    (pc = "serving" /\ failedFile # 0) =>
        \A f \in (failedFile + 1)..nfiles :
            f <= Len(batches) /\ Cardinality(RowsFrom(f)) = batches[f].n

\* C2: no two persisted rows have the same event_id.
C2_EventIdUnique ==
    \A r1, r2 \in table : r1.event_id = r2.event_id => r1 = r2

\* C2 witness: two rows are stored and the file being read repeats a stored id.
C2_Witness ==
    /\ pc = "insert"
    /\ Cardinality(table) >= 2
    /\ \E i \in 1..Len(rows) : Strip(rows[i].event_id) \in EventIds(table)

\* C3: every persisted row had a non-empty event_id and a non-empty merchant_id
\* (after trimming) in its CSV row.
C3_BothIdsNonEmpty ==
    \A r \in table : r.event_id # "" /\ r.merchant_id \notin {"", NULL}

\* C4: called on a table that holds a row, seed_data_from_folder returns at once:
\* no directory listing, no file read, the table as it was.
C4_SeededTableSkipsSeeding ==
    [][(pc = "guard" /\ table # {}) =>
          /\ pc' = "serving"
          /\ seedExit' = "skipped"
          /\ table' = table
          /\ <<nfiles, fi, rows, valid_records, batches, seen>>' =
                <<nfiles, fi, rows, valid_records, batches, seen>>]_vars

\* C4 witness: a call has been skipped on a table that holds rows.
C4_Witness == pc = "serving" /\ seedExit = "skipped" /\ table # {}

IsCandidate(row) ==
    /\ Strip(row.event_id) # ""
    /\ Strip(row.event_id) \notin EventIds(table)
    /\ AmountParses(row.amount)

\* C6: a row-level error discards only its row: the records collected for the
\* file are, in order, those of the rows read that have no such error.
C6_RowErrorsIsolated ==
    pc \in {"read", "insert"} =>
        LET kept == SelectSeq(rows, IsCandidate)
        IN  /\ Len(valid_records) = Len(kept)
            /\ \A k \in 1..Len(kept) :
                  /\ valid_records[k].event_id = Strip(kept[k].event_id)
                  /\ valid_records[k].merchant_id = Strip(kept[k].merchant_id)

\* C6 witness: the file's first row failed on its amount or had no event_id, and
\* a later row of the file is a candidate at the bulk insert.
C6_Witness ==
    /\ pc = "insert"
    /\ Len(rows) = 2
    /\ ~AmountParses(rows[1].amount) \/ Strip(rows[1].event_id) = ""
    /\ Len(valid_records) = 1

\* The fixed result of each aggregation when its query fails.
ExpectedDefault(op) ==
    CASE op = "top_merchant" -> [merchant_id |-> NULL, total_volume |-> 0]
      [] op = "monthly_active_merchants" -> <<>>
      [] op = "product_adoption" -> <<>>
      [] op = "kyc_funnel" -> [tier_starter |-> 0, tier_verified |-> 0, tier_premium |-> 0]
      [] op = "failure_rates" -> <<>>

\* C7: an aggregation whose query fails returns its fixed default, and no
\* aggregation changes the table.
C7_FaultGivesDefault ==
    [][(pc = "serving" /\ pc' = "serving") =>
          /\ table' = table
          /\ q'.failed => q'.result = ExpectedDefault(q'.op)]_vars

\* C7 witness: the funnel query failed on a table with a successful STARTER event.
C7_Witness ==
    /\ q.op = "kyc_funnel"
    /\ q.failed
    /\ \E r \in table : r.merchant_tier = "STARTER" /\ r.status = "SUCCESS"

\* The merchant and volume of `res` are a maximum of the per-merchant sums of
\* SUCCESS amounts of t, or the null result when t has no such event.
IsTopMerchant(t, res) ==
    LET ms == {r.merchant_id : r \in {x \in t : x.status = "SUCCESS" /\ x.merchant_id # NULL}}
        Vol(m) == SumAmount({x \in t : x.status = "SUCCESS" /\ x.merchant_id = m})
    IN  IF ms = {} THEN res = [merchant_id |-> NULL, total_volume |-> 0]
        ELSE /\ res.merchant_id \in ms
             /\ res.total_volume = Vol(res.merchant_id)
             /\ \A m \in ms : Vol(m) <= res.total_volume

\* C8: get_top_merchant returns a merchant of maximal SUCCESS volume with that
\* volume (the null result when there is none), and asked again about the same
\* events it names the same merchant.
C8_TopMerchantDeterministic ==
    [][(q'.op = "top_merchant" /\ ~q'.failed) =>
          /\ IsTopMerchant(table', q'.result)
          /\ (q.op = "top_merchant" /\ ~q.failed /\ table' = table) =>
                q'.result.merchant_id = q.result.merchant_id]_vars

\* C8 without the tie rule: the merchant returned has maximal volume.
C8_TopMerchantMaximal ==
    (q.op = "top_merchant" /\ ~q.failed) => IsTopMerchant(table, q.result)

\* Products with at least one SUCCESS or FAILED event.
RatedProducts == {r.product : r \in {x \in table : x.product # NULL /\ x.status \in {"SUCCESS", "FAILED"}}}

Failures(p) == Cardinality({x \in table : x.product = p /\ x.status = "FAILED"})

Successes(p) == Cardinality({x \in table : x.product = p /\ x.status = "SUCCESS"})

\* The list has exactly one entry per rated product and no other, and no entry is
\* followed by one of a greater rate.
OneEntryPerRatedProduct(res) ==
    /\ Len(res) = Cardinality(RatedProducts)
    /\ {res[i].product : i \in 1..Len(res)} = RatedProducts
    /\ \A i \in 1..Len(res) : \A j \in (i + 1)..Len(res) :
          res[i].failure_rate >= res[j].failure_rate

\* C9 as stated: each entry's rate is FAILED / (FAILED + SUCCESS) * 100 exactly
\* (rates are in tenths of a percent).
C9_ExactRates ==
    (q.op = "failure_rates" /\ ~q.failed) =>
        /\ OneEntryPerRatedProduct(q.result)
        /\ \A i \in 1..Len(q.result) :
              q.result[i].failure_rate
                    * (Failures(q.result[i].product) + Successes(q.result[i].product))
                 = 1000 * Failures(q.result[i].product)

\* C9 amended: each entry's rate is FAILED / (FAILED + SUCCESS) * 100 rounded to
\* one decimal place, i.e. within half a tenth of the exact rate.
C9_RoundedRates ==
    (q.op = "failure_rates" /\ ~q.failed) =>
        /\ OneEntryPerRatedProduct(q.result)
        /\ \A i \in 1..Len(q.result) :
              LET p == q.result[i].product
                  d == q.result[i].failure_rate * (Failures(p) + Successes(p))
                          - 1000 * Failures(p)
              IN  2 * d <= Failures(p) + Successes(p) /\ -2 * d <= Failures(p) + Successes(p)

\* C9 witness: two rated products with different rates, one of them rounded, and
\* nothing listed for the events that are neither SUCCESS nor FAILED.
C9_Witness ==
    /\ q.op = "failure_rates"
    /\ ~q.failed
    /\ \E i \in 1..Len(q.result) : q.result[i].failure_rate = 333

\* C9 witness of the ordering: a product of rate 100.0 listed before one of 0.0,
\* while a PENDING event of a third kind is not rated.
C9_OrderWitness ==
    /\ q.op = "failure_rates"
    /\ ~q.failed
    /\ Len(q.result) = 2
    /\ q.result[1].failure_rate = 1000 /\ q.result[2].failure_rate = 0
    /\ \E r \in table : r.status = "PENDING"

\* C10: the candidates of a file are persisted all or none, the files with rows
\* persisted are the files with candidates among a prefix of the finished ones,
\* and no row of the file in progress or of a later file is persisted.
C10_AtomicPrefix ==
    /\ \A r \in table : r.src \in 1..Len(batches)
    /\ \A f \in 1..Len(batches) : Cardinality(RowsFrom(f)) \in {0, batches[f].n}
    /\ \E k \in 0..Len(batches) :
          \A f \in 1..Len(batches) : RowsFrom(f) # {} <=> (f <= k /\ batches[f].n > 0)

\* C10 witness: the call left by an exception at its second file, after the
\* first file's candidates were committed.
C10_Witness ==
    /\ pc = "serving"
    /\ seedExit = "raised"
    /\ failedFile = 2
    /\ batches[1].n = 2 /\ Cardinality(RowsFrom(1)) = 2
    /\ batches[2].n > 0

=============================================================================
